---- MODULE Spec2Model ----
(***************************************************************************)
(* Lead dispatch and outcome reconciliation of the ai-dialer repository.   *)
(*                                                                         *)
(*   Dispatcher : supabase/functions/call-automation/index.ts              *)
(*   Reconciler : src/app/api/integrations/vapi/route.ts                   *)
(*   Lead store : src/lib/services/leads.ts                                *)
(*                                                                         *)
(* Time is counted in whole hours.  Every await of the two handlers is a   *)
(* step of its own, so that a dispatch cycle and any number of webhook     *)
(* requests interleave exactly where the code can be preempted.            *)
(***************************************************************************)
EXTENDS Integers, Sequences, FiniteSets, TLC

\* ------------------------------------------------------------------ bounds
NumLeads == 2
MaxCalls == 2
MaxTime == 1

LeadIds == 1..NumLeads
CallIds == 1..MaxCalls

\* ------------------------------------------------------- program constants
DEFAULT_max_calls_batch == 10
DEFAULT_retry_interval == 24
DEFAULT_max_attempts == 3

\* ------------------------------------------------------------- data model
NullTime == <<>>
At(t) == <<t>>

\* cal_booking_uid: null, or the uid of the booking made during a call, which
\* is written here as the id of that call.
NoUid == 0
Uid(callId) == callId

LeadStatus == {"pending", "calling", "no_answer", "scheduled", "not_interested", "error"}

\* The row a newly entered lead gets.
NewLead ==
  [status |-> "pending",
   call_attempts |-> 0,
   last_call_at |-> NullTime,
   cal_booking_uid |-> NoUid,
   follow_up_email_sent |-> FALSE]

\* created_at of the stored leads: distinct, and not in the order of the ids.
CreatedAt(l) == NumLeads + 1 - l

\* The settings rows the store may hold.  A row may lack the three numeric
\* columns; the Dispatcher then falls back on DEFAULT_SETTINGS.
BatchSizes == {1, 2}
RetryIntervals == {0, 1}
AttemptLimits == {0, 1, 2}

SettingsRows ==
  [automation_enabled : BOOLEAN,
   max_calls_batch : BatchSizes,
   retry_interval : RetryIntervals,
   max_attempts : AttemptLimits]
  \cup [automation_enabled : BOOLEAN]

\* The rows under which cycles and reports are interleaved: one batch smaller
\* than the table with a retry left, one batch of the whole table with a
\* single attempt, no attempt at all, and automation switched off.
CoreSettings ==
  {[automation_enabled |-> TRUE, max_calls_batch |-> 1, retry_interval |-> 0, max_attempts |-> 2],
   [automation_enabled |-> TRUE, max_calls_batch |-> 2, retry_interval |-> 0, max_attempts |-> 1],
   [automation_enabled |-> TRUE, max_calls_batch |-> 2, retry_interval |-> 1, max_attempts |-> 0],
   [automation_enabled |-> FALSE, max_calls_batch |-> 2, retry_interval |-> 0, max_attempts |-> 2]}

\* a || b on a column of the settings row: a stored 0 gives way to the default.
CoalesceOr(row, column, default) ==
  IF column \in DOMAIN row /\ row[column] # 0 THEN row[column] ELSE default

\* a ?? b on a column of the settings row
Coalesce(row, column, default) ==
  IF column \in DOMAIN row THEN row[column] ELSE default

\* analysis.structuredData of an end-of-call report: the outcome (any string,
\* or absent) and, read only for a scheduled outcome, booking_result.
Missing == "undefined"
Outcomes == {"no_answer", "scheduled", "not_interested", "pending", Missing}
NoBooking == [status |-> Missing, uid |-> NoUid]
BookingResults(callId) ==
  {NoBooking,
   [status |-> "failed", uid |-> Uid(callId)],
   [status |-> "success", uid |-> NoUid],
   [status |-> "success", uid |-> Uid(callId)]}

\* Every report body; call_id 0 stands for a report without call.id.
AllReportBodies ==
  [call_id : 0..MaxCalls, outcome : Outcomes \ {"scheduled"}, booking : {NoBooking}]
  \cup UNION {[call_id : {c}, outcome : {"scheduled"}, booking : BookingResults(c)] :
               c \in 0..MaxCalls}

\* The bodies the provider sends while cycles and reports interleave: one of
\* each kind the Reconciler tells apart.
ReportBodies ==
  {body \in AllReportBodies :
     /\ body.outcome # "pending"
     /\ body.outcome = "scheduled" => body.booking.uid # NoUid}

\* The report column of a call log before its report arrives.
NoReport == [call_id |-> 0, outcome |-> "none", booking |-> NoBooking]

Min(a, b) == IF a <= b THEN a ELSE b

VARIABLES
  now,         \* the clock, in hours
  settings,    \* the singleton automation_settings row
  leads,       \* table leads: id -> row
  call_logs,   \* table call_logs: a set of rows
  vapi_calls,  \* calls the Call Gateway accepted; the call id is the index
  cycle,       \* the running dispatch cycle (single-flight)
  reconcile,   \* per call id: the handler of its end-of-call report
  http         \* the HTTP response the last step sent, if it sent one

vars == <<now, settings, leads, call_logs, vapi_calls, cycle, reconcile, http>>

\* ---------------------------------------------------------------- Retry policy

\* The filter without .eq('status', 'pending').
PendingFilterAnyStatus(row, retryInterval, maxAttempts, t) ==
  /\ row.call_attempts < maxAttempts
  /\ \/ row.last_call_at = NullTime
     \/ row.last_call_at[1] < t - retryInterval

\* The filter with .lte in place of .lt on last_call_at.
PendingFilterLte(row, retryInterval, maxAttempts, t) ==
  /\ row.status = "pending"
  /\ row.call_attempts < maxAttempts
  /\ \/ row.last_call_at = NullTime
     \/ row.last_call_at[1] <= t - retryInterval

\* The filter of fetchPendingLeads on one row, with retryThreshold = t - retryInterval.
PendingFilter(row, retryInterval, maxAttempts, t) ==
  /\ row.status = "pending"
  /\ row.call_attempts < maxAttempts
  /\ \/ row.last_call_at = NullTime
     \/ row.last_call_at[1] < t - retryInterval

\* The order of the ids in place of the order of created_at.
RECURSIVE OrderById(_)
OrderById(S) ==
  IF S = {} THEN <<>>
  ELSE LET first == CHOOSE l \in S : \A m \in S : l <= m
       IN <<first>> \o OrderById(S \ {first})

\* .order('created_at', { ascending: true })
RECURSIVE OrderByCreatedAt(_)
OrderByCreatedAt(S) ==
  IF S = {} THEN <<>>
  ELSE LET first == CHOOSE l \in S : \A m \in S : CreatedAt(l) <= CreatedAt(m)
       IN <<first>> \o OrderByCreatedAt(S \ {first})

\* .limit(maxBatch)
Limit(seq, n) == SubSeq(seq, 1, Min(n, Len(seq)))

\* fetchPendingLeads: the ids of the selected rows, in order.
fetchPendingLeads(maxBatch, retryInterval, maxAttempts) ==
  Limit(OrderByCreatedAt({l \in LeadIds :
                            PendingFilter(leads[l], retryInterval, maxAttempts, now)}),
        maxBatch)

\* ---------------------------------------------------------------- Dispatcher

NoTask == [stage |-> "none", call_id |-> 0, success |-> FALSE]
IdleCycle == [running |-> FALSE, batch |-> <<>>, task |-> [l \in LeadIds |-> NoTask]]

\* Responses of the two endpoints: the dispatch function ("dispatch") and the
\* webhook route ("webhook", with the call id of the report it answers).
NoResponse ==
  [endpoint |-> "none", status |-> 0, message |-> "none", call_id |-> 0,
   total |-> 0, successful |-> 0, failed |-> 0]
Reply(status, message) ==
  [NoResponse EXCEPT !.endpoint = "dispatch", !.status = status, !.message = message]
Ack(status, message, callId) ==
  [NoResponse EXCEPT !.endpoint = "webhook", !.status = status, !.message = message,
                     !.call_id = callId]

\* The switch never read.
AutomationAlwaysOn(s) == FALSE

\* if (!settings.automation_enabled)
AutomationDisabled(s) == ~s.automation_enabled

\* getAutomationSettings: the stored row, or the disabled fallback when the
\* read fails.
getAutomationSettings(readOk) ==
  IF readOk THEN settings
  ELSE [automation_enabled |-> FALSE,
        max_calls_batch |-> DEFAULT_max_calls_batch,
        retry_interval |-> DEFAULT_retry_interval,
        max_attempts |-> DEFAULT_max_attempts]

\* The index of lead l in the batch of the running cycle.
BatchIndex(l) == CHOOSE i \in 1..Len(cycle.batch) : cycle.batch[i].id = l
Selected == {cycle.batch[i].id : i \in 1..Len(cycle.batch)}
Fetched(l) == cycle.batch[BatchIndex(l)].row

\* Deno.serve handler up to the start of Promise.all: settings, the disabled
\* exit, the fetch and its two exits.
StartCycle(readOk, fetchOk) ==
  LET s == getAutomationSettings(readOk)
      maxCallsBatch == Coalesce(s, "max_calls_batch", DEFAULT_max_calls_batch)
      retryInterval == Coalesce(s, "retry_interval", DEFAULT_retry_interval)
      maxAttempts == Coalesce(s, "max_attempts", DEFAULT_max_attempts)
      found == fetchPendingLeads(maxCallsBatch, retryInterval, maxAttempts)
  IN IF AutomationDisabled(s)
       THEN /\ http' = Reply(200, "Automation is disabled")
            /\ cycle' = cycle
     ELSE IF ~fetchOk
       THEN /\ http' = Reply(500, "Failed to fetch leads")
            /\ cycle' = cycle
     ELSE IF Len(found) = 0
       THEN /\ http' = Reply(200, "No leads to process")
            /\ cycle' = cycle
     ELSE /\ http' = NoResponse
          /\ cycle' = [running |-> TRUE,
                       batch |-> [i \in 1..Len(found) |->
                                    [id |-> found[i], row |-> leads[found[i]]]],
                       task |-> [l \in LeadIds |->
                                    IF \E i \in 1..Len(found) : found[i] = l
                                      THEN [NoTask EXCEPT !.stage = "call"]
                                      ELSE NoTask]]

\* The scheduler starts a cycle when none runs; both reads succeed.
CycleStart ==
  /\ ~cycle.running
  /\ StartCycle(TRUE, TRUE)
  /\ UNCHANGED <<now, settings, leads, call_logs, vapi_calls, reconcile>>

\* The same with a store that may fail either read.
CycleStartAny ==
  /\ ~cycle.running
  /\ \E readOk \in BOOLEAN, fetchOk \in BOOLEAN : StartCycle(readOk, fetchOk)
  /\ UNCHANGED <<now, settings, leads, call_logs, vapi_calls, reconcile>>

\* initiateVapiCall: the gateway accepts the call and returns its id, or the
\* request fails and the task's catch block ends the task.
GatewayAccepts(l) ==
  /\ Len(vapi_calls) < MaxCalls
  /\ vapi_calls' = Append(vapi_calls, l)
  /\ cycle' = [cycle EXCEPT !.task[l] = [stage |-> "log",
                                         call_id |-> Len(vapi_calls) + 1,
                                         success |-> FALSE]]

\* A rejected call that ends the whole batch instead of its own task.
GatewayFailsAbortsBatch(l) ==
  /\ vapi_calls' = vapi_calls
  /\ cycle' = [cycle EXCEPT !.task = [m \in LeadIds |->
                  IF m \in Selected
                    THEN [stage |-> "done", call_id |-> 0, success |-> FALSE]
                    ELSE NoTask]]

GatewayFails(l) ==
  /\ vapi_calls' = vapi_calls
  /\ cycle' = [cycle EXCEPT !.task[l] = [stage |-> "done", call_id |-> 0, success |-> FALSE]]

InitiateVapiCall(l) ==
  /\ cycle.running
  /\ cycle.task[l].stage = "call"
  /\ \/ GatewayAccepts(l)
     \/ GatewayFails(l)
  /\ http' = NoResponse
  /\ UNCHANGED <<now, settings, leads, call_logs, reconcile>>

\* createCallLog: the insert; its error is logged and the task goes on.
CallLogRow(l, callId) ==
  [call_id |-> callId, lead_id |-> l, status |-> "initiated", report |-> NoReport]

createCallLog(l, callId, insertOk) ==
  IF insertOk THEN call_logs \cup {CallLogRow(l, callId)} ELSE call_logs

CreateCallLog(l) ==
  /\ cycle.running
  /\ cycle.task[l].stage = "log"
  /\ \E insertOk \in BOOLEAN :
       call_logs' = createCallLog(l, cycle.task[l].call_id, insertOk)
  /\ cycle' = [cycle EXCEPT !.task[l].stage = "bump"]
  /\ http' = NoResponse
  /\ UNCHANGED <<now, settings, leads, vapi_calls, reconcile>>

\* The whole fetched row written back with the two columns changed.
updateLeadWithCallAttemptWholeRow(l, currentAttempts, updateOk) ==
  IF updateOk
    THEN [leads EXCEPT ![l] = [Fetched(l) EXCEPT !.call_attempts = currentAttempts + 1,
                                                 !.last_call_at = At(now)]]
    ELSE leads

\* The attempt update also marking the lead as calling.
updateLeadWithCallAttemptCalling(l, currentAttempts, updateOk) ==
  IF updateOk
    THEN [leads EXCEPT ![l].call_attempts = currentAttempts + 1,
                       ![l].last_call_at = At(now),
                       ![l].status = "calling"]
    ELSE leads

\* The attempt counted twice.
updateLeadWithCallAttemptTwice(l, currentAttempts, updateOk) ==
  IF updateOk
    THEN [leads EXCEPT ![l].call_attempts = currentAttempts + 2,
                       ![l].last_call_at = At(now)]
    ELSE leads

\* updateLeadWithCallAttempt: writes the two columns from the fetched row's
\* call_attempts, or fails and leaves the row alone.
updateLeadWithCallAttempt(l, currentAttempts, updateOk) ==
  IF updateOk
    THEN [leads EXCEPT ![l].call_attempts = currentAttempts + 1,
                       ![l].last_call_at = At(now)]
    ELSE leads

UpdateLeadWithCallAttempt(l) ==
  /\ cycle.running
  /\ cycle.task[l].stage = "bump"
  /\ \E updateOk \in BOOLEAN :
       /\ leads' = updateLeadWithCallAttempt(l, Fetched(l).call_attempts, updateOk)
       /\ cycle' = [cycle EXCEPT !.task[l].stage = "done",
                                 !.task[l].success = updateOk]
  /\ http' = NoResponse
  /\ UNCHANGED <<now, settings, call_logs, vapi_calls, reconcile>>

\* Promise.all has resolved: the summary and the response.
AllDone == cycle.running /\ \A l \in Selected : cycle.task[l].stage = "done"

Summary ==
  [endpoint |-> "dispatch",
   status |-> 200,
   message |-> "Calls initiated",
   call_id |-> 0,
   total |-> Len(cycle.batch),
   successful |-> Cardinality({l \in Selected : cycle.task[l].success}),
   failed |-> Cardinality({l \in Selected : ~cycle.task[l].success})]

CycleEnd ==
  /\ AllDone
  /\ http' = Summary
  /\ cycle' = IdleCycle
  /\ UNCHANGED <<now, settings, leads, call_logs, vapi_calls, reconcile>>

\* ---------------------------------------------------------------- Reconciler

NoLead == [call_attempts |-> 0, follow_up_email_sent |-> FALSE, found |-> FALSE]

\* The handler of the report of one call id: its position, what it carries
\* (lead_id of the call log, status and uid of updateData, the row updateLead
\* returned, the sender's answer), its response, and how often it has
\* written the lead's status and had an email delivered.
NoReconcile ==
  [pc |-> "none", lead_id |-> 0, status |-> "none", uid |-> NoUid,
   lead |-> NoLead, email |-> "none", answer |-> 0,
   applied |-> 0, sent |-> 0]

\* structuredData.outcome ?? 'error'
ReportedStatus(body) == IF body.outcome = Missing THEN "error" ELSE body.outcome

\* The uid taken from booking_result whatever its status.
ReportedUidUnchecked(body) ==
  IF ReportedStatus(body) = "scheduled" THEN body.booking.uid ELSE NoUid

\* The booking uid the update carries: booking_result.data.uid of a successful
\* booking, and no column otherwise.
ReportedUid(body) ==
  IF /\ ReportedStatus(body) = "scheduled"
     /\ body.booking.status = "success"
     /\ body.booking.uid # NoUid
    THEN body.booking.uid
    ELSE NoUid

\* Every row of the call id, with or without a report.
ReportableAgain(callId) == {row \in call_logs : row.call_id = callId}

\* CallLogService.updateWithReport: the row of the call id that has no report
\* yet takes the report and is returned; no such row, no data.
Reportable(callId) == {row \in call_logs : row.call_id = callId /\ row.report = NoReport}

updateWithReport(callId, body) ==
  {IF row \in Reportable(callId) THEN [row EXCEPT !.report = body] ELSE row :
     row \in call_logs}

\* The check on a call id alone: a log that already has its report still counts.
ReportAcceptedAgain(body) ==
  body.call_id # 0 /\ \E row \in call_logs : row.call_id = body.call_id

\* if (updateError || !updatedCallLog) return
ReportAccepted(body) == body.call_id # 0 /\ Reportable(body.call_id) # {}

\* The test that also lets error through.
ClassifiedOutcomeWithError(status) ==
  status \in {"no_answer", "scheduled", "not_interested", "error"}

\* Any status taken for an outcome.
ClassifiedOutcomeAny(status) == TRUE

\* status === 'no_answer' || status === 'scheduled' || status === 'not_interested'
ClassifiedOutcome(status) == status \in {"no_answer", "scheduled", "not_interested"}

\* A report without matching log answered as not found.
DiscardReportNotFound(callId) == Ack(404, "no call log to update", callId)

\* The answer to a report that has no call log to update.
DiscardReport(callId) == Ack(200, "no call log to update", callId)

\* handleEndOfCallReport up to its first write of the lead.
handleEndOfCallReport(body) ==
  LET status == ReportedStatus(body)
      c == body.call_id
  IN IF c = 0
       THEN /\ call_logs' = call_logs
            /\ reconcile' = reconcile
            /\ http' = Ack(200, "no call id", 0)
     ELSE IF ~ReportAccepted(body)
       THEN /\ call_logs' = call_logs
            /\ reconcile' = reconcile
            /\ http' = DiscardReport(c)
     ELSE LET log == CHOOSE row \in call_logs : row.call_id = c
          IN /\ reconcile[c].pc \in {"none", "done"}
             /\ call_logs' = updateWithReport(c, body)
             /\ IF ClassifiedOutcome(status)
                  THEN /\ reconcile' = [reconcile EXCEPT ![c] =
                            [NoReconcile EXCEPT !.pc = "updateLead",
                                                !.lead_id = log.lead_id,
                                                !.status = status,
                                                !.uid = ReportedUid(body),
                                                !.applied = reconcile[c].applied,
                                                !.sent = reconcile[c].sent]]
                       /\ http' = NoResponse
                  ELSE /\ reconcile' = reconcile
                       /\ http' = Ack(200, "invalid status", c)

\* toolCalls?.[0].function.name of a tool-calls message: no tool call, one of
\* the two tools, or any other name.
ToolCalls == {"none", "check_availability", "book_appointment", "other"}

\* The schema without the enum on message.type.
requestSchemaAnyType(type, tool) == tool # "other"

\* requestSchema.parse: message.type is one of the two types and a tool call,
\* when there is one, names one of the two tools.
requestSchema(type, tool) ==
  /\ type \in {"tool-calls", "end-of-call-report"}
  /\ tool # "other"

\* getAvailability and createBooking of lib/cal: the calendar answers with a
\* result or an error.
CalResults == {"success", "error"}

\* The tool-calls branch of POST with handleAvailabilityCheck and
\* handleBookAppointment: the status of the response, which is all they
\* produce here (400 without a tool call or with invalid arguments, 500 when
\* the calendar fails, 200 with its result).
handleToolCall(tool, argsOk, cal) ==
  IF tool = "none" \/ ~argsOk THEN Ack(400, "tool-calls", 0)
  ELSE IF cal = "error" THEN Ack(500, "tool-calls", 0)
  ELSE Ack(200, "tool-calls", 0)

\* POST: the secret, the schema, and the branch on message.type.  An
\* end-of-call report is taken as the provider sends it, without toolCalls.
POST(secretOk, type, body) ==
  IF ~secretOk
    THEN /\ http' = Ack(401, "Unauthorized: Invalid API key", 0)
         /\ UNCHANGED <<call_logs, reconcile>>
  ELSE IF type = "end-of-call-report" /\ requestSchema(type, "none")
    THEN handleEndOfCallReport(body)
  ELSE /\ http' \in {IF requestSchema(type, tool)
                        THEN handleToolCall(tool, argsOk, cal)
                        ELSE Ack(500, "schema", 0) :
                      tool \in ToolCalls, argsOk \in BOOLEAN, cal \in CalResults}
       /\ UNCHANGED <<call_logs, reconcile>>

MessageTypes == {"tool-calls", "end-of-call-report", "status-update"}

\* The x-vapi-secret header of a request: none, another value, or the secret.
Headers == {"absent", "wrong", "secret"}

\* Any header that is present passes.
validateApiKeyPresent(header) == header # "absent"

\* validateApiKey: Boolean(apiKey && apiKey === process.env.VAPI_SECRET_KEY)
validateApiKey(header) == header # "absent" /\ header = "secret"

\* Only an end-of-call report carries analysis.structuredData.
BodiesOf(type) == IF type = "end-of-call-report" THEN AllReportBodies ELSE {NoReport}

\* Any request at all.
Webhook ==
  /\ \E header \in Headers, type \in MessageTypes :
       \E body \in BodiesOf(type) : POST(validateApiKey(header), type, body)
  /\ UNCHANGED <<now, settings, leads, vapi_calls, cycle>>

\* The provider's report of a call whose log waits for it.
Report ==
  /\ \E body \in ReportBodies :
       ReportAccepted(body) /\ POST(validateApiKey("secret"), "end-of-call-report", body)
  /\ UNCHANGED <<now, settings, leads, vapi_calls, cycle>>

\* LeadsService.updateLead: the columns of the update are written and the row
\* is returned, or the store fails and nothing is written.
updateLead(l, updates) ==
  [leads EXCEPT ![l] = [column \in DOMAIN leads[l] |->
                          IF column \in DOMAIN updates THEN updates[column]
                          ELSE leads[l][column]]]

\* updateData of handleEndOfCallReport
UpdateData(r) ==
  IF r.uid # NoUid
    THEN [status |-> r.status, cal_booking_uid |-> r.uid]
    ELSE [status |-> r.status]

\* The handler returns NextResponse.json({}, { status: 200 }); its locals are gone.
Finished(r) == [r EXCEPT !.pc = "done", !.answer = 200, !.lead = NoLead]

\* handleFollowUpEmail going on without a row.
handleFollowUpEmailAnyLead(r) == [r EXCEPT !.pc = "followUp"]

\* if (!lead) return: after a failed update handleFollowUpEmail has no row
\* and returns at once.
handleFollowUpEmailNoLead(r) == Finished(r)

\* The update of the lead and the call of handleFollowUpEmail, which returns
\* at once when the update gave no row.
UpdateLead(c) ==
  /\ reconcile[c].pc = "updateLead"
  /\ \/ LET r == reconcile[c]
             after == updateLead(r.lead_id, UpdateData(r))
             row == after[r.lead_id]
         IN /\ leads' = after
            /\ reconcile' = [reconcile EXCEPT ![c] =
                  [r EXCEPT !.pc = "followUp",
                            !.applied = r.applied + 1,
                            !.lead = [call_attempts |-> row.call_attempts,
                                      follow_up_email_sent |-> row.follow_up_email_sent,
                                      found |-> TRUE]]]
            /\ http' = NoResponse
     \/ /\ leads' = leads
        /\ reconcile' = [reconcile EXCEPT ![c] = handleFollowUpEmailNoLead(reconcile[c])]
        /\ http' = Ack(200, "end-of-call-report", c)
  /\ UNCHANGED <<now, settings, call_logs, vapi_calls, cycle>>

\* The condition without the test of the outcome.
ShouldSendFollowUpAnyOutcome(lead, status, maxAttempts) == ~lead.follow_up_email_sent

\* The condition with > in place of >= on call_attempts.
ShouldSendFollowUpPastMax(lead, status, maxAttempts) ==
  /\ ~lead.follow_up_email_sent
  /\ \/ status = "not_interested"
     \/ status = "no_answer" /\ lead.call_attempts > maxAttempts

\* The condition of handleFollowUpEmail on the returned row.
ShouldSendFollowUp(lead, status, maxAttempts) ==
  /\ ~lead.follow_up_email_sent
  /\ \/ status = "not_interested"
     \/ status = "no_answer" /\ lead.call_attempts >= maxAttempts

\* settings.max_attempts of the row handleFollowUpEmail reads
ReconcilerMaxAttempts == settings.max_attempts

\* The flag written whatever the sender answered.
AfterSendAlwaysFlags(r, result) ==
  [r EXCEPT !.email = IF result = "ok" THEN "delivered" ELSE "failed",
            !.sent = IF result = "ok" THEN r.sent + 1 ELSE r.sent,
            !.pc = "flag"]

\* What handleFollowUpEmail does with the sender's answer: only a confirmed
\* delivery leads to the write of the flag.
AfterSend(r, result) ==
  IF result = "ok"
    THEN [r EXCEPT !.email = "delivered", !.sent = r.sent + 1, !.pc = "flag"]
    ELSE Finished([r EXCEPT !.email = "failed"])

\* handleFollowUpEmail from the settings read to the answer of the sender.
FollowUp(c) ==
  /\ reconcile[c].pc = "followUp"
  /\ IF ShouldSendFollowUp(reconcile[c].lead, reconcile[c].status, ReconcilerMaxAttempts)
       THEN \E result \in {"ok", "error", "throw"} :
              /\ reconcile' = [reconcile EXCEPT ![c] = AfterSend(reconcile[c], result)]
              /\ http' = IF result = "ok" THEN NoResponse ELSE Ack(200, "end-of-call-report", c)
       ELSE /\ reconcile' = [reconcile EXCEPT ![c] = Finished(reconcile[c])]
            /\ http' = Ack(200, "end-of-call-report", c)
  /\ UNCHANGED <<now, settings, leads, call_logs, vapi_calls, cycle>>

\* The write of follow_up_email_sent after a confirmed delivery.
SetFlag(c) ==
  /\ reconcile[c].pc = "flag"
  /\ \/ /\ leads' = updateLead(reconcile[c].lead_id, [follow_up_email_sent |-> TRUE])
        /\ reconcile' = [reconcile EXCEPT ![c] = Finished(reconcile[c])]
     \/ /\ leads' = leads
        /\ reconcile' = [reconcile EXCEPT ![c] = Finished(reconcile[c])]
  /\ http' = Ack(200, "end-of-call-report", c)
  /\ UNCHANGED <<now, settings, call_logs, vapi_calls, cycle>>

\* ---------------------------------------------------------------- Specifications

Tick ==
  /\ now < MaxTime
  /\ now' = now + 1
  /\ http' = NoResponse
  /\ UNCHANGED <<settings, leads, call_logs, vapi_calls, cycle, reconcile>>

EmptyStore ==
  /\ call_logs = {}
  /\ vapi_calls = <<>>
  /\ cycle = IdleCycle
  /\ reconcile = [c \in CallIds |-> NoReconcile]
  /\ http = NoResponse

\* Spec: cycles and reports interleaved at every await, store writes and
\* gateway and sender calls free to fail, on a table of new leads.
Init ==
  /\ now = 0
  /\ settings \in CoreSettings
  /\ leads = [l \in LeadIds |-> NewLead]
  /\ EmptyStore

Dispatch ==
  \/ CycleStart
  \/ \E l \in LeadIds : InitiateVapiCall(l)
  \/ \E l \in LeadIds : CreateCallLog(l)
  \/ \E l \in LeadIds : UpdateLeadWithCallAttempt(l)
  \/ CycleEnd

Reconcile ==
  \/ \E c \in CallIds : UpdateLead(c)
  \/ \E c \in CallIds : FollowUp(c)
  \/ \E c \in CallIds : SetFlag(c)

Next ==
  \/ Tick
  \/ Dispatch
  \/ Report
  \/ Reconcile

Spec == Init /\ [][Next]_vars

\* SpecPolicy: one start of a cycle on any table, any settings row and any
\* hour, with a store that may fail the reads.
PolicyRows ==
  {row \in [status : LeadStatus,
            call_attempts : 0..DEFAULT_max_attempts,
            last_call_at : {NullTime} \cup {At(t) : t \in 0..MaxTime},
            cal_booking_uid : {NoUid},
            follow_up_email_sent : {FALSE}] :
     (row.call_attempts = 0) <=> (row.last_call_at = NullTime)}

InitPolicy ==
  /\ now \in 0..MaxTime
  /\ settings \in SettingsRows
  /\ leads \in [LeadIds -> PolicyRows]
  /\ \A l \in LeadIds : leads[l].last_call_at # NullTime => leads[l].last_call_at[1] <= now
  /\ EmptyStore

NextPolicy == CycleStartAny

SpecPolicy == InitPolicy /\ [][NextPolicy]_vars

\* SpecWebhook: every kind of webhook request, valid or not, after the
\* Dispatcher has placed MaxCalls calls and recorded each as an attempt; the
\* insert of a call log may have failed.
CallsTo(calls, l) == Cardinality({c \in CallIds : calls[c] = l})

Called(calls, l) ==
  IF CallsTo(calls, l) = 0 THEN NewLead
  ELSE [NewLead EXCEPT !.call_attempts = CallsTo(calls, l), !.last_call_at = At(0)]

InitWebhook ==
  /\ now = 0
  /\ settings \in {[automation_enabled |-> TRUE, max_calls_batch |-> 2,
                     retry_interval |-> 1, max_attempts |-> m] : m \in {1, 2}}
  /\ vapi_calls \in [CallIds -> LeadIds]
  /\ leads = [l \in LeadIds |-> Called(vapi_calls, l)]
  /\ \E logged \in SUBSET CallIds :
       call_logs = {CallLogRow(vapi_calls[c], c) : c \in logged}
  /\ cycle = IdleCycle
  /\ reconcile = [c \in CallIds |-> NoReconcile]
  /\ http = NoResponse

NextWebhook ==
  \/ Webhook
  \/ Reconcile

SpecWebhook == InitWebhook /\ [][NextWebhook]_vars

\* SpecCycles and SpecGatewaySilent: the Dispatcher alone, run again and again
\* by its scheduler.  Every await on the store resolves, with a result or an
\* error, and a cycle whose tasks have all ended responds.
NextCycles ==
  \/ Tick
  \/ Dispatch

StoreAnswers ==
  /\ WF_vars(CycleStart)
  /\ WF_vars(CycleEnd)
  /\ \A l \in LeadIds : WF_vars(CreateCallLog(l))
  /\ \A l \in LeadIds : WF_vars(UpdateLeadWithCallAttempt(l))

\* The gateway answers every call, accepting or rejecting it.
GatewayAnswers == \A l \in LeadIds : WF_vars(InitiateVapiCall(l))

SpecCycles == Init /\ [][NextCycles]_vars /\ StoreAnswers /\ GatewayAnswers

\* await fetch(...) of initiateVapiCall carries no signal and no timeout: the
\* task goes on only if the gateway answers, which nothing guarantees.
SpecGatewaySilent == Init /\ [][NextCycles]_vars /\ StoreAnswers

\* ---------------------------------------------------------------- Properties

\* The numbers a cycle works with: the stored row's, or the defaults.
BatchSize == Coalesce(settings, "max_calls_batch", DEFAULT_max_calls_batch)
RetryHours == Coalesce(settings, "retry_interval", DEFAULT_retry_interval)
AttemptLimit == Coalesce(settings, "max_attempts", DEFAULT_max_attempts)

\* A pending lead below the attempt limit, as both readings of the retry
\* interval have it.
Callable(l) == leads[l].status = "pending" /\ leads[l].call_attempts < AttemptLimit

\* Never called, or last called more than the retry interval ago.
EligibleOlder(l) ==
  /\ Callable(l)
  /\ \/ leads[l].last_call_at = NullTime
     \/ now - leads[l].last_call_at[1] > RetryHours

\* Never called, or last called at least the retry interval ago.
EligibleAtLeast(l) ==
  /\ Callable(l)
  /\ \/ leads[l].last_call_at = NullTime
     \/ now - leads[l].last_call_at[1] >= RetryHours

\* C1 as amended: the selection predicate admits a lead exactly when it is
\* pending, below the attempt limit, and never called or last called strictly
\* more than retry_interval hours ago; a started cycle selects only such
\* leads and, while the batch is not full, all of them.
C1_EligibleWhenStrictlyOlder ==
  cycle.running =>
    /\ \A l \in LeadIds :
         PendingFilter(leads[l], RetryHours, AttemptLimit, now) <=> EligibleOlder(l)
    /\ \A l \in Selected : EligibleOlder(l)
    /\ Len(cycle.batch) < BatchSize => \A l \in LeadIds : EligibleOlder(l) => l \in Selected

\* C1 as stated: the same with "at least retry_interval hours ago", so that a
\* lead last called exactly retry_interval hours ago is admitted.
C1_EligibleAtInterval ==
  cycle.running =>
    /\ \A l \in LeadIds :
         PendingFilter(leads[l], RetryHours, AttemptLimit, now) <=> EligibleAtLeast(l)
    /\ \A l \in Selected : EligibleAtLeast(l)
    /\ Len(cycle.batch) < BatchSize => \A l \in LeadIds : EligibleAtLeast(l) => l \in Selected

\* A cycle has started with room in its batch and has left out a callable
\* lead last called exactly retry_interval hours ago.
C1_Witness ==
  /\ cycle.running
  /\ Len(cycle.batch) < BatchSize
  /\ \E l \in LeadIds :
       /\ Callable(l)
       /\ leads[l].last_call_at # NullTime
       /\ now - leads[l].last_call_at[1] = RetryHours
       /\ l \notin Selected

\* C6: a started cycle has selected min(E, B) leads, E the number of eligible
\* leads and B the batch size, has a task for each of them and for no other,
\* and every selected lead was created before every eligible lead left out;
\* a cycle that answers "No leads to process" had none.
C6_BatchIsEarliestMinEB ==
  LET eligible == {l \in LeadIds : EligibleOlder(l)}
  IN /\ cycle.running =>
          /\ Len(cycle.batch) = Min(Cardinality(eligible), BatchSize)
          /\ Cardinality(Selected) = Len(cycle.batch)
          /\ Selected \subseteq eligible
          /\ \A l \in Selected : \A m \in eligible \ Selected : CreatedAt(l) < CreatedAt(m)
          /\ \A i, j \in 1..Len(cycle.batch) :
               i < j => CreatedAt(cycle.batch[i].id) < CreatedAt(cycle.batch[j].id)
          /\ \A l \in LeadIds : (cycle.task[l].stage = "call") <=> (l \in Selected)
     /\ http.message = "No leads to process" => eligible = {}

\* A cycle has started with more eligible leads than the batch holds.
C6_Witness ==
  /\ cycle.running
  /\ Len(cycle.batch) = BatchSize
  /\ Cardinality({l \in LeadIds : EligibleOlder(l)}) > BatchSize

\* C7: a cycle run while automation_enabled is false answers 200
\* "Automation is disabled" and starts no call, creates no call log and
\* changes no lead.
C7_DisabledCycleDoesNothing ==
  [][~settings.automation_enabled =>
       /\ http' = Reply(200, "Automation is disabled")
       /\ UNCHANGED <<leads, call_logs, vapi_calls, cycle, settings>>]_vars

\* A disabled cycle has answered while a lead was eligible.
C7_Witness ==
  /\ ~settings.automation_enabled
  /\ http = Reply(200, "Automation is disabled")
  /\ \E l \in LeadIds : EligibleOlder(l)
  /\ vapi_calls = <<>> /\ call_logs = {} /\ ~cycle.running

\* The call log of a call id, and the report the store holds for it.
LogOf(c) == CHOOSE row \in call_logs : row.call_id = c
HasReport(c) == \E row \in call_logs : row.call_id = c /\ row.report # NoReport

\* C2: however often the report of a call is delivered, its handler writes
\* the lead's outcome at most once and has at most one follow-up email
\* delivered, and only for a log that holds the report.
C2_DuplicateReportAppliedOnce ==
  \A c \in CallIds :
    /\ reconcile[c].applied <= 1
    /\ reconcile[c].sent <= 1
    /\ reconcile[c].pc # "none" => HasReport(c)

\* A second delivery of a call's report has been answered 200 after the first
\* one was applied to the lead and its email delivered.
C2_Witness ==
  \E c \in CallIds :
    /\ http = Ack(200, "no call log to update", c)
    /\ HasReport(c)
    /\ reconcile[c].pc = "done"
    /\ reconcile[c].applied = 1
    /\ reconcile[c].sent = 1

\* C10: the update of a scheduled report sets the lead's status to scheduled;
\* it sets cal_booking_uid to the booking's uid when booking_result has
\* status success and a uid, and leaves the column as it was (null on a lead
\* never booked) when booking_result is absent, failed or without uid.
C10_ScheduledSetsBookingUid ==
  [][\A c \in CallIds :
       (reconcile[c].pc = "updateLead" /\ reconcile'[c].pc = "followUp"
          /\ LogOf(c).report.outcome = "scheduled") =>
         LET body == LogOf(c).report
             l == LogOf(c).lead_id
         IN /\ leads'[l].status = "scheduled"
            /\ leads'[l].cal_booking_uid =
                 IF body.booking.status = "success" /\ body.booking.uid # NoUid
                   THEN body.booking.uid
                   ELSE leads[l].cal_booking_uid]_vars

\* A scheduled report with a failed booking that names a uid has been applied:
\* the lead is scheduled and has no booking uid.
C10_Witness ==
  \E c \in CallIds :
    /\ HasReport(c)
    /\ LogOf(c).report.outcome = "scheduled"
    /\ LogOf(c).report.booking.status = "failed"
    /\ LogOf(c).report.booking.uid # NoUid
    /\ reconcile[c].applied = 1
    /\ leads[LogOf(c).lead_id].status = "scheduled"
    /\ leads[LogOf(c).lead_id].cal_booking_uid = NoUid

\* The follow-up emails delivered to a lead, over the reports of all its calls.
RECURSIVE DeliveredUpTo(_, _)
DeliveredUpTo(l, c) ==
  IF c = 0 THEN 0
  ELSE DeliveredUpTo(l, c - 1) + (IF reconcile[c].lead_id = l THEN reconcile[c].sent ELSE 0)

Delivered(l) == DeliveredUpTo(l, MaxCalls)

\* C3: whatever reports are reconciled for a lead, at whatever times, at most
\* one follow-up email is delivered to it.
C3_AtMostOneEmailPerLead == \A l \in LeadIds : Delivered(l) <= 1

\* C4: a handler that has applied an outcome to a lead calls the follow-up
\* sender exactly when the returned row has follow_up_email_sent false and the
\* outcome is not_interested, or is no_answer with call_attempts at or above
\* max_attempts.
C4_FollowUpCondition ==
  [][\A c \in CallIds :
       (reconcile[c].pc = "followUp" /\ reconcile'[c].pc # "followUp") =>
         LET row == reconcile[c].lead
             outcome == LogOf(c).report.outcome
         IN (reconcile'[c].email # "none") <=>
              /\ ~row.follow_up_email_sent
              /\ \/ outcome = "not_interested"
                 \/ outcome = "no_answer" /\ row.call_attempts >= AttemptLimit]_vars

\* A no_answer report found the lead at max_attempts with no email sent yet,
\* and the sender has delivered.
C4_Witness ==
  \E c \in CallIds :
    /\ reconcile[c].pc = "flag"
    /\ LogOf(c).report.outcome = "no_answer"
    /\ reconcile[c].lead.call_attempts = AttemptLimit
    /\ AttemptLimit > 0
    /\ ~reconcile[c].lead.follow_up_email_sent
    /\ reconcile[c].email = "delivered"

\* C5: follow_up_email_sent turns true only in the step of a handler whose
\* sender confirmed delivery; a handler whose sender failed ends with 200
\* and writes nothing, so the flag it read as false is still false.
C5_FlagOnlyOnDelivery ==
  [][/\ \A l \in LeadIds :
          (~leads[l].follow_up_email_sent /\ leads'[l].follow_up_email_sent) =>
            \E c \in CallIds :
              /\ reconcile[c].pc = "flag"
              /\ reconcile[c].email = "delivered"
              /\ reconcile[c].lead_id = l
              /\ reconcile'[c].pc = "done"
     /\ \A c \in CallIds :
          (reconcile[c].pc = "followUp" /\ reconcile'[c].email = "failed") =>
            /\ leads' = leads
            /\ reconcile'[c].pc = "done"
            /\ reconcile'[c].answer = 200
            /\ http' = Ack(200, "end-of-call-report", c)]_vars

\* The sender failed for one report of a lead, whose flag stayed false, and a
\* report of another call of the same lead has had its email delivered.
C5_Witness ==
  \E c, d \in CallIds :
    /\ c # d
    /\ reconcile[c].lead_id = reconcile[d].lead_id
    /\ reconcile[c].pc = "done"
    /\ reconcile[c].email = "failed"
    /\ reconcile[d].pc = "flag"
    /\ reconcile[d].email = "delivered"
    /\ ~leads[reconcile[c].lead_id].follow_up_email_sent

\* The task of lead l ended because the gateway rejected its call.
Rejected(l) ==
  /\ cycle.running
  /\ l \in Selected
  /\ cycle.task[l].stage = "done"
  /\ cycle.task[l].call_id = 0

\* C8: when the gateway rejects the call of one selected lead, the step
\* creates no call log, changes no lead and leaves every other task where it
\* was; the lead keeps its call_attempts and last_call_at and, unless a
\* report has changed its status meanwhile, is still eligible; and the cycle
\* ends only when every selected lead's task has ended.
C8_RejectedCallLeavesLeadEligible ==
  [][/\ \A l \in LeadIds :
          (cycle.running /\ cycle.task[l].stage = "call" /\ cycle'.task[l].stage = "done") =>
            /\ UNCHANGED <<leads, call_logs, vapi_calls>>
            /\ cycle'.task[l].call_id = 0 /\ ~cycle'.task[l].success
            /\ \A m \in LeadIds \ {l} : cycle'.task[m] = cycle.task[m]
            /\ cycle'.batch = cycle.batch /\ cycle'.running
     /\ \A l \in LeadIds :
          Rejected(l) =>
            /\ leads[l].call_attempts = Fetched(l).call_attempts
            /\ leads[l].last_call_at = Fetched(l).last_call_at
            /\ leads[l].status = "pending" =>
                 /\ leads[l].call_attempts < AttemptLimit
                 /\ \/ leads[l].last_call_at = NullTime
                    \/ now - leads[l].last_call_at[1] > RetryHours
     /\ (cycle.running /\ ~cycle'.running) =>
          /\ \A l \in Selected : cycle.task[l].stage = "done"
          /\ http'.total = Len(cycle.batch)
          /\ http'.failed >= Cardinality({l \in LeadIds : Rejected(l)})]_vars

\* All tasks of a cycle have ended: the gateway rejected the call of one lead
\* and the call of another was placed, logged and recorded.
C8_Witness ==
  /\ AllDone
  /\ \E l, m \in Selected :
       /\ Rejected(l)
       /\ leads[l] = NewLead
       /\ cycle.task[m].success
       /\ cycle.task[m].call_id # 0
       /\ leads[m].call_attempts = 1

\* C9: when all tasks of a cycle have ended, every selected lead whose call
\* the gateway accepted has call_attempts one above the fetched value and
\* last_call_at set to the time of the dispatch.
C9_AcceptedCallIsRecorded ==
  AllDone =>
    \A l \in Selected :
      cycle.task[l].call_id # 0 =>
        /\ leads[l].call_attempts = Fetched(l).call_attempts + 1
        /\ leads[l].last_call_at # NullTime

\* The calls the gateway has accepted for a lead.
AcceptedCalls(l) == Cardinality({c \in 1..Len(vapi_calls) : vapi_calls[c] = l})

\* C11: when a cycle has ended its tasks, a lead fetched with call_attempts =
\* max_attempts - 1 and an earlier call, whose new call the gateway accepted,
\* has call_attempts = max_attempts and a last-call time and is no longer
\* eligible; and once the no_answer report of a call of a lead at
\* max_attempts has ended with its email delivered, the lead's flag is true.
C11_LastAttemptThenNoAnswer ==
  /\ AllDone =>
       \A l \in Selected :
         (/\ cycle.task[l].call_id # 0
          /\ Fetched(l).call_attempts = AttemptLimit - 1
          /\ Fetched(l).last_call_at # NullTime) =>
           /\ leads[l].call_attempts = AttemptLimit
           /\ leads[l].last_call_at # NullTime
           /\ ~EligibleOlder(l)
  /\ \A c \in CallIds :
       (/\ reconcile[c].pc = "done"
        /\ reconcile[c].status = "no_answer"
        /\ reconcile[c].email = "delivered"
        /\ leads[reconcile[c].lead_id].call_attempts = AttemptLimit) =>
         leads[reconcile[c].lead_id].follow_up_email_sent

\* C12: in every state the gateway has accepted at most max_attempts calls
\* for any one lead, and no lead has call_attempts above max_attempts.
C12_RetriesBounded ==
  \A l \in LeadIds :
    /\ AcceptedCalls(l) <= AttemptLimit
    /\ leads[l].call_attempts <= AttemptLimit

\* C13: no two call logs have the same call id; a task counted as successful
\* has the call log of its call; and between cycles every call the gateway
\* accepted has exactly one call log, naming its call id and its lead.
C13_OneCallLogPerCall ==
  /\ \A r1, r2 \in call_logs : r1.call_id = r2.call_id => r1 = r2
  /\ cycle.running =>
       \A l \in Selected :
         cycle.task[l].success =>
           \E row \in call_logs : row.call_id = cycle.task[l].call_id /\ row.lead_id = l
  /\ ~cycle.running =>
       \A c \in 1..Len(vapi_calls) :
         Cardinality({row \in call_logs :
                        row.call_id = c /\ row.lead_id = vapi_calls[c]}) = 1

\* C14: follow_up_email_sent never turns from true to false, and it turns
\* true only in the flag write of a handler whose outcome is not_interested,
\* or no_answer on a row with call_attempts at or above max_attempts.
C14_FlagMonotonic ==
  [][\A l \in LeadIds :
       /\ leads[l].follow_up_email_sent => leads'[l].follow_up_email_sent
       /\ (~leads[l].follow_up_email_sent /\ leads'[l].follow_up_email_sent) =>
            \E c \in CallIds :
              /\ reconcile[c].pc = "flag"
              /\ reconcile'[c].pc = "done"
              /\ LogOf(c).lead_id = l
              /\ \/ LogOf(c).report.outcome = "not_interested"
                 \/ /\ LogOf(c).report.outcome = "no_answer"
                    /\ reconcile[c].lead.call_attempts >= AttemptLimit]_vars

\* The flag of a lead at max_attempts is true after a no_answer report, and
\* a later scheduled report of another call of the lead has been applied.
C14_Witness ==
  \E c, d \in CallIds :
    /\ c # d
    /\ reconcile[c].lead_id = reconcile[d].lead_id
    /\ reconcile[c].pc = "done"
    /\ reconcile[c].status = "no_answer"
    /\ reconcile[c].email = "delivered"
    /\ reconcile[d].pc = "done"
    /\ reconcile[d].status = "scheduled"
    /\ leads[reconcile[c].lead_id].status = "scheduled"
    /\ leads[reconcile[c].lead_id].follow_up_email_sent

\* C15: call_attempts of a lead never decreases, and it changes only in the
\* step that ends the attempt update of the lead's task, by exactly one from
\* the stored value.
C15_AttemptsOnlyBumped ==
  [][\A l \in LeadIds :
       /\ leads'[l].call_attempts >= leads[l].call_attempts
       /\ leads'[l].call_attempts # leads[l].call_attempts =>
            /\ cycle.running
            /\ cycle.task[l].stage = "bump"
            /\ cycle'.task[l].stage = "done"
            /\ leads'[l].call_attempts = leads[l].call_attempts + 1]_vars

\* A lead has been called twice and counted twice, and a report has been
\* applied to it.
C15_Witness ==
  \E l \in LeadIds :
    /\ leads[l].call_attempts = 2
    /\ AcceptedCalls(l) = 2
    /\ leads[l].status # "pending"

\* C16: a cycle answers "Automation is disabled" only when the stored
\* switch is off, so that a failed read of the settings or of the leads is
\* answered with a server error; and a cycle answered with a server error
\* has started no task.
C16_ReadFailureIsServerError ==
  /\ http.message = "Automation is disabled" => ~settings.automation_enabled
  /\ http.status = 500 => ~cycle.running /\ vapi_calls = <<>> /\ call_logs = {}

\* An authenticated end-of-call report whose outcome is missing or is none
\* of no_answer, scheduled, not_interested is handled in this step.
InvalidOutcomeReport ==
  \E body \in AllReportBodies :
    /\ body.outcome \notin {"no_answer", "scheduled", "not_interested"}
    /\ POST(validateApiKey("secret"), "end-of-call-report", body)

C18_UnknownCallIgnored ==
  [][(\E body \in AllReportBodies :
        /\ \/ body.call_id = 0
           \/ ~ \E row \in call_logs : row.call_id = body.call_id
        /\ POST(validateApiKey("secret"), "end-of-call-report", body)) =>
       /\ UNCHANGED <<leads, call_logs, reconcile>>
       /\ http'.endpoint = "webhook"
       /\ http'.status = 200]_vars

\* A report for a call that has no call log has been answered, while the
\* log of another call waits for its report.
C18_Witness ==
  \E c, d \in CallIds :
    /\ http = Ack(200, "no call log to update", c)
    /\ ~ \E row \in call_logs : row.call_id = c
    /\ Reportable(d) # {}

\* C19: a request whose secret header is absent or wrong, whatever its type
\* and body, changes no lead and no call log, starts no handler and is
\* answered 401.
C19_BadSecretRejected ==
  [][(\E header \in Headers \ {"secret"}, type \in MessageTypes :
        \E body \in BodiesOf(type) : POST(validateApiKey(header), type, body)) =>
       /\ UNCHANGED <<leads, call_logs, reconcile>>
       /\ http'.status = 401]_vars

\* A request with a bad secret has been rejected while a call log waited for
\* its report and the handler of another report was under way.
C19_Witness ==
  /\ http.status = 401
  /\ \E c \in CallIds : Reportable(c) # {}
  /\ \E d \in CallIds : reconcile[d].pc \in {"updateLead", "followUp", "flag"}

\* C20: the summary of a cycle whose tasks have ended has total =
\* successful + failed = the number of selected leads, and successful counts
\* exactly the leads whose call the gateway accepted, whose call log was
\* created and whose attempt was recorded.
C20_SummaryCountsCompleteDispatches ==
  AllDone =>
    /\ Summary.total = Summary.successful + Summary.failed
    /\ Summary.total = Cardinality(Selected)
    /\ Summary.successful =
         Cardinality({l \in Selected :
                        /\ cycle.task[l].call_id # 0
                        /\ \E row \in call_logs :
                             row.call_id = cycle.task[l].call_id /\ row.lead_id = l
                        /\ leads[l].call_attempts = Fetched(l).call_attempts + 1})

\* The attempt update of lead l's task and the status update of the handler
\* of call c have both been written, and no report of another call of the
\* lead has been applied.
BothWritten(l, c) ==
  /\ cycle.running
  /\ l \in Selected
  /\ cycle.task[l].call_id = c
  /\ cycle.task[l].stage = "done"
  /\ cycle.task[l].success
  /\ reconcile[c].applied = 1
  /\ \A d \in CallIds \ {c} : reconcile[d].lead_id = l => reconcile[d].applied = 0

\* Both writes are in the row of lead l.
BothKept(l, c) ==
  /\ leads[l].call_attempts = Fetched(l).call_attempts + 1
  /\ leads[l].last_call_at # NullTime
  /\ leads[l].last_call_at # Fetched(l).last_call_at
  /\ leads[l].status = reconcile[c].status
  /\ reconcile[c].uid # NoUid => leads[l].cal_booking_uid = reconcile[c].uid

\* C21: in whatever order the attempt update of a cycle and the status update
\* of the report of the call that cycle placed are written, the lead then has
\* call_attempts one above the fetched value, the new last_call_at, the
\* report's status and, when the update carried one, its booking uid; the
\* attempt update leaves status, cal_booking_uid and follow_up_email_sent as
\* the handler wrote them, and the handler's writes leave call_attempts and
\* last_call_at as the Dispatcher wrote them.
C21_NoLostUpdate ==
  [][/\ \A l \in LeadIds, c \in CallIds : BothWritten(l, c)' => BothKept(l, c)'
     /\ \A l \in LeadIds :
          (cycle.running /\ cycle.task[l].stage = "bump" /\ cycle'.task[l].stage = "done") =>
            /\ leads'[l].status = leads[l].status
            /\ leads'[l].cal_booking_uid = leads[l].cal_booking_uid
            /\ leads'[l].follow_up_email_sent = leads[l].follow_up_email_sent
     /\ \A c \in CallIds :
          (reconcile[c].pc \in {"updateLead", "flag"} /\ reconcile'[c].pc # reconcile[c].pc) =>
            \A l \in LeadIds :
              /\ leads'[l].call_attempts = leads[l].call_attempts
              /\ leads'[l].last_call_at = leads[l].last_call_at]_vars

\* The handler wrote the status before the attempt update (the row it got back
\* has the fetched call_attempts) and the attempt update was written before
\* the handler went on: the lead has both.
C21_Witness ==
  \E l \in LeadIds, c \in CallIds :
    /\ BothWritten(l, c)
    /\ reconcile[c].pc = "followUp"
    /\ reconcile[c].lead.call_attempts = Fetched(l).call_attempts
    /\ leads[l].call_attempts = Fetched(l).call_attempts + 1
    /\ leads[l].status = "scheduled"
    /\ leads[l].cal_booking_uid = Uid(c)

\* A terminal status: scheduled, not_interested, or no_answer with the
\* attempts used up.
Terminal(l) ==
  \/ leads[l].status \in {"scheduled", "not_interested"}
  \/ leads[l].status = "no_answer" /\ leads[l].call_attempts >= AttemptLimit

\* C22: a cycle that starts selects no lead whose status is terminal; a
\* status other than pending never becomes pending again, so this holds for
\* every later cycle; and a call is placed only for a lead the running cycle
\* selected, which it fetched as pending.
C22_TerminalNeverSelected ==
  [][/\ \A l \in LeadIds : Terminal(l) => leads[l].status # "pending"
     /\ \A l \in LeadIds : leads[l].status # "pending" => leads'[l].status # "pending"
     /\ (~cycle.running /\ cycle'.running) =>
          \A l \in LeadIds :
            (Terminal(l) \/ leads[l].status # "pending") =>
              /\ ~ \E i \in 1..Len(cycle'.batch) : cycle'.batch[i].id = l
              /\ cycle'.task[l].stage = "none"
     /\ vapi_calls' # vapi_calls =>
          LET l == vapi_calls'[Len(vapi_calls')]
          IN /\ cycle.running
             /\ l \in Selected
             /\ Fetched(l).status = "pending"]_vars

\* A cycle has started with room in its batch and has left out a no_answer
\* lead that has used its attempts and was last called longer ago than the
\* retry interval.
C22_Witness ==
  /\ cycle.running
  /\ Len(cycle.batch) < BatchSize
  /\ \E l \in LeadIds :
       /\ leads[l].status = "no_answer"
       /\ AttemptLimit > 0
       /\ leads[l].call_attempts >= AttemptLimit
       /\ now - leads[l].last_call_at[1] > RetryHours
       /\ l \notin Selected

\* A lead whose call ended with a no_answer report, with attempts left and
\* last called longer ago than the retry interval.
RetryDue(l) ==
  /\ leads[l].status = "no_answer"
  /\ leads[l].call_attempts < AttemptLimit
  /\ leads[l].last_call_at # NullTime
  /\ now - leads[l].last_call_at[1] > RetryHours

\* C23: a cycle that starts with automation enabled while a no_answer lead
\* with attempts left was last called longer ago than the retry interval, and
\* no other lead is eligible, selects that lead, whose stored status is still
\* no_answer.
C23_NoAnswerRetried ==
  [][(/\ ~cycle.running
      /\ settings.automation_enabled
      /\ cycle'.running \/ http'.endpoint = "dispatch") =>
       \A l \in LeadIds :
         (RetryDue(l) /\ \A m \in LeadIds \ {l} : ~EligibleOlder(m)) =>
           /\ cycle'.running
           /\ \E i \in 1..Len(cycle'.batch) : cycle'.batch[i].id = l
           /\ leads'[l].status = "no_answer"]_vars

\* C24: with automation enabled and a batch of at least one lead, a lead
\* that is eligible is later selected by a cycle, unless it stops being
\* eligible, even when the gateway keeps rejecting the calls of older leads.
C24_NoStarvation ==
  \A l \in LeadIds :
    (settings.automation_enabled /\ BatchSize >= 1 /\ EligibleOlder(l))
      ~> (~EligibleOlder(l) \/ (cycle.running /\ l \in Selected))

\* The settings row stores the number n in a column.
Stores(column, n) == column \in DOMAIN settings /\ settings[column] = n

\* A cycle has made its selection: it runs, or it found no lead.
Selection == cycle.running \/ http.message = "No leads to process"

\* C25 as amended: a stored max_attempts of 0 is used and no cycle selects a
\* lead; a stored retry_interval of 0 is used and, while the batch is not
\* full, a cycle selects every pending lead below the attempt limit that was
\* never called or last called before the instant of the cycle, and none
\* last called at that very instant.
C25_DegenerateSettingsHonoured ==
  /\ Stores("max_attempts", 0) => ~cycle.running
  /\ (Selection /\ Stores("retry_interval", 0)) =>
       \A l \in LeadIds :
         /\ (/\ Len(cycle.batch) < BatchSize
             /\ Callable(l)
             /\ \/ leads[l].last_call_at = NullTime
                \/ leads[l].last_call_at[1] < now) => l \in Selected
         /\ (Callable(l) /\ leads[l].last_call_at = At(now)) => l \notin Selected

\* C25 as stated: with a stored retry_interval of 0 a cycle selects, while
\* the batch is not full, every pending lead below the attempt limit, however
\* recently it was called; with max_attempts 0 it selects none.
C25_ZeroIntervalSelectsAll ==
  /\ Stores("max_attempts", 0) => ~cycle.running
  /\ (Selection /\ Stores("retry_interval", 0) /\ Len(cycle.batch) < BatchSize) =>
       \A l \in LeadIds : Callable(l) => l \in Selected

\* With retry_interval 0 a cycle with room in its batch has selected a lead
\* called an hour ago and left out one called at this very hour.
C25_Witness ==
  /\ cycle.running
  /\ Stores("retry_interval", 0)
  /\ Len(cycle.batch) < BatchSize
  /\ \E l, m \in LeadIds :
       /\ Callable(l) /\ leads[l].last_call_at = At(now) /\ l \notin Selected
       /\ Callable(m) /\ leads[m].last_call_at # NullTime
       /\ leads[m].last_call_at[1] < now /\ m \in Selected

\* C26: the step in which the update of the lead fails changes no lead, ends
\* the handler and answers 200; a handler that has ended without having
\* written the lead has had no email sent, so that it has not written the
\* flag either.
C26_FailedUpdateStillAcknowledged ==
  [][\A c \in CallIds :
       /\ (reconcile[c].pc = "updateLead" /\ reconcile'[c].applied = reconcile[c].applied
             /\ reconcile'[c] # reconcile[c]) =>
            /\ leads' = leads
            /\ http' = Ack(200, "end-of-call-report", c)
            /\ reconcile'[c].pc = "done"
            /\ reconcile'[c].answer = 200
            /\ reconcile'[c].email = "none"
            /\ reconcile'[c].sent = reconcile[c].sent
       /\ (reconcile[c].pc \in {"followUp", "flag"}) => reconcile[c].applied = 1
       /\ (reconcile[c].pc = "done" /\ reconcile[c].applied = 0) =>
            /\ reconcile[c].email = "none"
            /\ reconcile[c].sent = 0]_vars

\* The update of the lead failed for a not_interested report: the handler
\* has answered 200 and ended, and the lead is as it was, without email.
C26_Witness ==
  \E c \in CallIds :
    /\ http = Ack(200, "end-of-call-report", c)
    /\ reconcile[c].pc = "done"
    /\ reconcile[c].status = "not_interested"
    /\ reconcile[c].applied = 0
    /\ reconcile[c].sent = 0
    /\ leads[reconcile[c].lead_id].status = "pending"
    /\ ~leads[reconcile[c].lead_id].follow_up_email_sent

\* The columns of a lead each writer owns.
DispatcherColumns(row) == <<row.call_attempts, row.last_call_at>>
ReconcilerColumns(row) == <<row.status, row.cal_booking_uid, row.follow_up_email_sent>>

\* C27: call_attempts and last_call_at of a lead change only in the attempt
\* update of a task of the running cycle for a lead whose call was placed,
\* and that step changes nothing else of any lead; status, cal_booking_uid
\* and follow_up_email_sent change only in a write of a report's handler, for
\* the lead of the call log of that report, and that step changes nothing
\* else of any lead; no step removes a lead or changes the settings row.
C27_WritersFrame ==
  [][/\ DOMAIN leads' = DOMAIN leads
     /\ settings' = settings
     /\ \A l \in LeadIds :
          DispatcherColumns(leads'[l]) # DispatcherColumns(leads[l]) =>
            /\ cycle.running
            /\ l \in Selected
            /\ cycle.task[l].stage = "bump"
            /\ cycle.task[l].call_id # 0
            /\ cycle'.task[l].stage = "done"
            /\ reconcile' = reconcile
            /\ ReconcilerColumns(leads'[l]) = ReconcilerColumns(leads[l])
            /\ \A m \in LeadIds \ {l} : leads'[m] = leads[m]
     /\ \A l \in LeadIds :
          ReconcilerColumns(leads'[l]) # ReconcilerColumns(leads[l]) =>
            /\ \E c \in CallIds :
                 /\ reconcile[c].pc \in {"updateLead", "flag"}
                 /\ reconcile'[c].pc # reconcile[c].pc
                 /\ LogOf(c).lead_id = l
                 /\ HasReport(c)
            /\ cycle' = cycle
            /\ DispatcherColumns(leads'[l]) = DispatcherColumns(leads[l])
            /\ \A m \in LeadIds \ {l} : leads'[m] = leads[m]]_vars

\* Both writers have written one lead (a counted call, a not_interested
\* report and its flag) while the other lead is as it was entered.
C27_Witness ==
  \E l, m \in LeadIds :
    /\ leads[l].call_attempts = 1
    /\ leads[l].status = "not_interested"
    /\ leads[l].follow_up_email_sent
    /\ leads[m] = NewLead
    /\ settings.max_attempts = 2

\* C28: a cycle that runs ends with its response, also when the gateway
\* never answers the call of one selected lead.
C28_CycleTerminates ==
  cycle.running ~> (~cycle.running /\ http.endpoint = "dispatch")

\* C29: a call log that holds a report is never changed again, whatever
\* request arrives for its call id, and no step adds or removes a call log
\* of a call id that has one.
C29_ReportWrittenOnce ==
  [][\A row \in call_logs :
       row.report # NoReport =>
         /\ row \in call_logs'
         /\ \A other \in call_logs' : other.call_id = row.call_id => other = row]_vars

\* A further delivery for a call id has been turned away while the handler
\* of the first delivery was still at its update of the lead: the call log
\* holds the first report.
C29_Witness ==
  \E c \in CallIds :
    /\ http = DiscardReport(c)
    /\ HasReport(c)
    /\ LogOf(c).report.outcome = "scheduled"
    /\ reconcile[c].pc = "updateLead"

\* C30: cal_booking_uid changes only in a handler's update that also sets
\* status to scheduled, and in every state a lead that has a booking uid has
\* status scheduled.
C30_BookingImpliesScheduled ==
  [][/\ \A l \in LeadIds :
          leads'[l].cal_booking_uid # leads[l].cal_booking_uid =>
            /\ leads'[l].status = "scheduled"
            /\ leads'[l].cal_booking_uid # NoUid
     /\ \A l \in LeadIds :
          leads'[l].cal_booking_uid # NoUid => leads'[l].status = "scheduled"]_vars

\* The statuses a call can end in.
OutcomeStatuses == {"no_answer", "scheduled", "not_interested", "error"}

\* C31: once the status of a lead is no_answer, scheduled, not_interested
\* or error, no step changes it to another status.
C31_StatusOneDirectional ==
  [][\A l \in LeadIds :
       leads[l].status \in OutcomeStatuses => leads'[l].status = leads[l].status]_vars

\* A call of lead l is in flight: the gateway accepted it, its call log was
\* created and its attempt recorded, and its report has not arrived.
InFlight(l) ==
  /\ leads[l].call_attempts = AcceptedCalls(l)
  /\ \E c \in 1..Len(vapi_calls) : vapi_calls[c] = l /\ Reportable(c) # {}

\* C32: a cycle that starts selects no lead that has a call in flight.
C32_OneCallInFlight ==
  [][(~cycle.running /\ cycle'.running) =>
       \A l \in LeadIds :
         InFlight(l) => ~ \E i \in 1..Len(cycle'.batch) : cycle'.batch[i].id = l]_vars

\* Nothing more will happen to lead l: no cycle runs, every call of the lead
\* was recorded as an attempt, no call log of the lead waits for its report
\* and no handler of a report of the lead is under way.
Settled(l) ==
  /\ ~cycle.running
  /\ leads[l].call_attempts = AcceptedCalls(l)
  /\ \A c \in CallIds :
       /\ ~ \E row \in Reportable(c) : row.lead_id = l
       /\ reconcile[c].lead_id = l => reconcile[c].pc = "done"

\* C33: when a cycle and the handlers of the reports of its calls have
\* ended, in whatever order their steps were taken, a lead left with status
\* no_answer and call_attempts at or above max_attempts, for which the sender
\* never failed, has had a follow-up email delivered or has its flag set.
C33_ExhaustedNoAnswerGetsFollowUp ==
  \A l \in LeadIds :
    (/\ Settled(l)
     /\ leads[l].status = "no_answer"
     /\ leads[l].call_attempts >= AttemptLimit
     /\ \E c \in CallIds :
          /\ reconcile[c].lead_id = l
          /\ reconcile[c].status = "no_answer"
          /\ reconcile[c].applied = 1
     /\ \A c \in CallIds : reconcile[c].lead_id = l => reconcile[c].email # "failed") =>
      leads[l].follow_up_email_sent \/ Delivered(l) >= 1

\* The call logs that name a lead.
CallLogsOf(l) == {row \in call_logs : row.lead_id = l}

\* C34: between cycles, call_attempts of a lead equals the number of calls
\* the gateway has accepted for it, which equals the number of call logs that
\* name it, also when the store has rejected an insert or an attempt update.
C34_AttemptsEqualCallsEqualLogs ==
  ~cycle.running =>
    \A l \in LeadIds :
      /\ leads[l].call_attempts = AcceptedCalls(l)
      /\ AcceptedCalls(l) = Cardinality(CallLogsOf(l))

\* C35: whatever request arrives, a step that changes the status of a lead
\* sets it to no_answer, scheduled or not_interested; every handler carries
\* one of these three; and a report without outcome starts no handler and
\* leaves every lead as it was.
C35_OnlyThreeStatusesWritten ==
  [][/\ \A l \in LeadIds :
          leads'[l].status # leads[l].status =>
            leads'[l].status \in {"no_answer", "scheduled", "not_interested"}
     /\ \A c \in CallIds :
          reconcile'[c].pc # "none" =>
            reconcile'[c].status \in {"no_answer", "scheduled", "not_interested"}
     /\ (\E body \in AllReportBodies :
           /\ body.outcome = Missing
           /\ POST(validateApiKey("secret"), "end-of-call-report", body)) =>
          UNCHANGED <<leads, reconcile>>]_vars

\* A report with outcome pending has been answered for one call of a lead
\* whose status the report of another call had set to no_answer: the status
\* is still no_answer.
C35_Witness ==
  \E c, d \in CallIds :
    /\ c # d
    /\ http = Ack(200, "invalid status", d)
    /\ HasReport(d)
    /\ LogOf(d).report.outcome = "pending"
    /\ HasReport(c)
    /\ LogOf(c).lead_id = LogOf(d).lead_id
    /\ reconcile[c].status = "no_answer"
    /\ reconcile[c].applied = 1
    /\ leads[LogOf(d).lead_id].status = "no_answer"

\* A response of the tool-calls branch.
ToolResponse(r) == r.message = "tool-calls"

\* C36: a tool-calls message, whatever its secret and its tool call, changes
\* no lead and no call log and starts or advances no handler, so that no
\* email is sent; an end-of-call report is never answered by a tool; and an
\* authenticated message of any other type changes nothing and is rejected
\* by the schema.
C36_MessageTypesRouted ==
  [][/\ \/ /\ UNCHANGED <<leads, call_logs, reconcile>>
           /\ \/ ToolResponse(http')
              \/ http' = Ack(401, "Unauthorized: Invalid API key", 0)
              \/ http' = Ack(500, "schema", 0)
        \/ ~\E header \in Headers, body \in BodiesOf("tool-calls") :
              POST(validateApiKey(header), "tool-calls", body)
     /\ \/ ~ToolResponse(http')
        \/ ~\E header \in Headers, body \in AllReportBodies :
              POST(validateApiKey(header), "end-of-call-report", body)
     /\ \/ /\ UNCHANGED <<leads, call_logs, reconcile>>
           /\ http' = Ack(500, "schema", 0)
        \/ ~\E type \in MessageTypes \ {"tool-calls", "end-of-call-report"} :
              \E body \in BodiesOf(type) :
                POST(validateApiKey("secret"), type, body)]_vars

\* A tool has answered 200 while a call log waited for its report and the
\* handler of another report was about to send its follow-up.
C36_Witness ==
  /\ http = Ack(200, "tool-calls", 0)
  /\ \E c \in CallIds : Reportable(c) # {}
  /\ \E d \in CallIds : reconcile[d].pc = "followUp"
====
